---------------------------- MODULE Spec2Model ----------------------------
(***************************************************************************)
(* Model of the five coders of information_encoding:                       *)
(*   bloom_filter.py, burrows_wheeler_transform.py, hamming_coding.py,     *)
(*   huffman_coding.py, lzw_coding.py.                                     *)
(* A character is its code point (ord), a string is a sequence of code     *)
(* points, a bitarray is a sequence of 0/1.  The components share no       *)
(* state; each has its own specification (SpecBloom, SpecBWT, ...).        *)
(***************************************************************************)
EXTENDS Integers, Sequences, FiniteSets, TLC

VARIABLES
    \* ---- BloomFilter instance (bloom_filter.py)
    bf_pc,                  \* "idle" | "new" | "ready" | "failed"
    expected_num_elements,  \* self._expected_num_elements
    filter_len,             \* self._filter_len
    filter,                 \* self._filter
    num_hash_func,          \* self._num_hash_func
    bf_error,               \* exception raised by the constructor, or "none"
    added,                  \* history: items passed to add_to_filter so far
    bf_checked,             \* last item passed to check_is_not_in_filter
    bf_result,              \* what that call returned ("none" before any call)
    \* ---- BurrowsWheelerTransform (burrows_wheeler_transform.py)
    bwt_pc,                 \* "idle" | "start" | "encoded" | "walk" | "done"
    bwt_call,               \* "none" | "roundtrip" | "direct": how decode was called
    bwt_text,               \* text handed to encode
    encoded_text,           \* encoded_word of encode / encoded_text of decode
    encoded_index,          \* encode's index / decode's encoded_index argument
    signs_chain,            \* decode: list of (index, letter, next index)
    curr_index,             \* decode: curr_index
    text_signs_reversed,    \* decode: list of the letters collected
    bwt_result,             \* decode: the string returned
    bwt_error,              \* exception raised by decode, or "none"
    \* ---- HammingCoder instance (hamming_coding.py)
    ham_pc,                 \* "idle" | "start" | "encoded" | "done" | "failed"
    num_of_char,            \* self.num_of_char
    origin_str,             \* text handed to encode
    encoded_chunks,         \* the chunks encode returned, as the channel left them
    ham_flipped,            \* history: the (chunk, bit) pairs flipped in transit
    ham_result,             \* decode: the string returned
    ham_error,              \* exception raised by decode, or "none"
    \* ---- HuffmanCoder instance (huffman_coding.py)
    huf_pc,                 \* "idle" | "ready" | "encoded" | "decoded" | "raised"
    nodes,                  \* the Node objects of the current tree, by id 1..
    root,                   \* self._root: a node id, or None
    huf_encodes,            \* history: number of encode calls so far
    huf_text,               \* history: text of the last encode call
    huf_encoded,            \* history: what the last encode call returned
    huf_bits,               \* the bits handed to decode, when it was the last call
    huf_result,             \* the string decode returned, when it was the last call
    huf_error,              \* exception raised by the last call, or "none"
    huf_prev_tree,          \* history: the last encode call replaced a tree
    \* ---- LzwCoder (lzw_coding.py)
    lzw_pc,                 \* "idle" | "start" | "encoded" | "decoding" | "done" | "failed"
    lzw_text,               \* text handed to encode
    lzw_codes,              \* encode's result / decode's encoded_text
    lexicon,                \* decode: the decoding lexicon
    prev_code,              \* decode: prev_code
    entry,                  \* decode: entry
    lzw_pos,                \* decode: number of codes consumed
    decoded_text,           \* decode: list of the strings emitted
    lzw_result,             \* decode: the string returned
    lzw_error,              \* exception raised by the last call, or "none"
    \* ---- HammingCoder._add_info_bits, called on its own (hamming_coding.py)
    aib_pc,                 \* "idle" | "start" | "collected"
    aib_chunk,              \* chunk: the data bits handed in
    collected_chunk         \* the bitarray returned

bloomVars == <<bf_pc, expected_num_elements, filter_len, filter,
               num_hash_func, bf_error, added, bf_checked, bf_result>>

bwtVars == <<bwt_pc, bwt_call, bwt_text, encoded_text, encoded_index,
             signs_chain, curr_index, text_signs_reversed, bwt_result,
             bwt_error>>

hamVars == <<ham_pc, num_of_char, origin_str, encoded_chunks, ham_flipped,
             ham_result, ham_error>>

hufVars == <<huf_pc, nodes, root, huf_encodes, huf_text, huf_encoded,
             huf_bits, huf_result, huf_error, huf_prev_tree>>

lzwVars == <<lzw_pc, lzw_text, lzw_codes, lexicon, prev_code, entry, lzw_pos,
             decoded_text, lzw_result, lzw_error>>

aibVars == <<aib_pc, aib_chunk, collected_chunk>>

vars == <<bloomVars, bwtVars, hamVars, hufVars, lzwVars, aibVars>>

\* what a step of one component leaves alone
notBloom == <<bwtVars, hamVars, hufVars, lzwVars, aibVars>>
notBwt == <<bloomVars, hamVars, hufVars, lzwVars, aibVars>>
notHam == <<bloomVars, bwtVars, hufVars, lzwVars, aibVars>>
notHuf == <<bloomVars, bwtVars, hamVars, lzwVars, aibVars>>
notLzw == <<bloomVars, bwtVars, hamVars, hufVars, aibVars>>
notAib == <<bloomVars, bwtVars, hamVars, hufVars, lzwVars>>

-----------------------------------------------------------------------------
(* Bounds of the model *)

\* largest expected_num_elements a filter is constructed with
MaxExpected == 3
\* longest item handed to the filter
MaxItemLen == 1
\* most distinct items added to one filter
MaxAdded == 3

\* longest chunk of data bits handed to _add_info_bits on its own
MaxChunkBits == 5

\* longest text handed to the Burrows-Wheeler transform
MaxBwtLen == 4
\* iterations of decode's loop followed beyond len(encoded_text)
WalkSlack == 2

\* longest text handed to the Hamming coder
MaxHamLen == 2
\* largest num_of_char a Hamming coder is constructed with
MaxChunkChars == 2
\* most bits flipped between encode and decode
MaxFlips == 2

\* longest text handed to the Huffman coder
MaxHufLen == 2
\* most encode calls made on one Huffman coder
MaxEncodes == 2
\* longest bit sequence handed to decode that no encode call returned
MaxBits == 2

\* longest text handed to the LZW coder
MaxLzwLen == 4

-----------------------------------------------------------------------------
(* Strings *)

\* all strings over alphabet A of length at most n
StringsUpTo(A, n) == UNION {[1..k -> A] : k \in 0..n}

\* str(n) for n >= 0: the code points of the decimal digits
RECURSIVE StrOfNat(_)
StrOfNat(n) ==
    IF n < 10 THEN <<48 + n>>
    ELSE StrOfNat(n \div 10) \o <<48 + (n % 10)>>

\* s < t in Python's string order (code point by code point, prefix first)
RECURSIVE StrLess(_, _)
StrLess(s, t) ==
    IF t = <<>> THEN FALSE
    ELSE IF s = <<>> THEN TRUE
    ELSE IF Head(s) # Head(t) THEN Head(s) < Head(t)
    ELSE StrLess(Tail(s), Tail(t))

\* list.sort() / sorted() on a list of strings
RECURSIVE InsertSorted(_, _)
InsertSorted(x, lst) ==
    IF lst = <<>> THEN <<x>>
    ELSE IF StrLess(x, Head(lst)) THEN <<x>> \o lst
    ELSE <<Head(lst)>> \o InsertSorted(x, Tail(lst))

RECURSIVE SortStrings(_)
SortStrings(lst) ==
    IF lst = <<>> THEN <<>>
    ELSE InsertSorted(Head(lst), SortStrings(Tail(lst)))

\* lst[::-1]
Reverse(lst) == [i \in 1..Len(lst) |-> lst[Len(lst) + 1 - i]]

\* ''.join(lst)
RECURSIVE Join(_)
Join(lst) == IF lst = <<>> THEN <<>> ELSE Head(lst) \o Join(Tail(lst))

\* lst without its p-th element (1-based)
RemoveAt(lst, p) == SubSeq(lst, 1, p - 1) \o SubSeq(lst, p + 1, Len(lst))

\* lst[a:b] of Python for 0 <= a (0-based, b exclusive, clipped to the list)
PySlice(lst, a, b) ==
    SubSeq(lst, a + 1, IF b < Len(lst) THEN b ELSE Len(lst))

-----------------------------------------------------------------------------
(* BloomFilter *)

\* code points of the items' characters: 'a', 'b'
BloomAlphabet == {97, 98}
BloomItems == StringsUpTo(BloomAlphabet, MaxItemLen)
BloomExpected == (-1)..MaxExpected

\* _calc_filter_length with the sign of expected_num_elements dropped
CalcFilterLengthOfMagnitude(n) ==
    ((IF n < 0 THEN -n ELSE n) * 958506) \div 100000

\* math.floor(-n * math.log(0.01) / (math.log(2) * math.log(2))):
\* -ln(0.01)/ln(2)^2 = 9.58505837..., taken as 958506/100000; the floor is
\* the float's for every n with |n| < 60.
CalcFilterLength(n) == (n * 958506) \div 100000

\* round((filter_len / n) * math.log(2)) for n # 0: ln 2 = 0.693147...;
\* no tie occurs, so round(x) = floor(x + 1/2).
CalcNumHashFunc(len, n) ==
    (2 * len * 693147 + n * 1000000) \div (2 * n * 1000000)

\* hash_value = ((hash_value << 5) + hash_value) + ord(letter), from 5381
RECURSIVE Djb2(_, _)
Djb2(hash_value, s) ==
    IF s = <<>> THEN hash_value
    ELSE Djb2(((hash_value * 32) + hash_value) + Head(s), Tail(s))

ParameterizedHashFunc(new_item, parameter, len) ==
    Djb2(5381, StrOfNat(parameter) \o new_item) % len

\* the bit positions add_to_filter sets / check_is_not_in_filter probes
\* (0-based, as in the source; filter[i + 1] in the model)
ProbeSet(item, k, len) ==
    {ParameterizedHashFunc(item, i, len) : i \in 0..(k - 1)}

\* True when some probed bit is 0 ("definitely not in the filter")
CheckIsNotInFilter(flt, item, k, len) ==
    \E i \in 0..(k - 1) : flt[ParameterizedHashFunc(item, i, len) + 1] = 0

AddToFilterDropsLast(flt, new_item, k, len) ==
    [j \in 1..len |->
        IF (j - 1) \in ProbeSet(new_item, k - 1, len) THEN 1 ELSE flt[j]]

AddToFilter(flt, new_item, k, len) ==
    [j \in 1..len |->
        IF (j - 1) \in ProbeSet(new_item, k, len) THEN 1 ELSE flt[j]]

BloomIdle ==
    /\ bf_pc = "idle"
    /\ expected_num_elements = 0
    /\ filter_len = 0
    /\ filter = <<>>
    /\ num_hash_func = 0
    /\ bf_error = "none"
    /\ added = {}
    /\ bf_checked = <<>>
    /\ bf_result = "none"

\* BloomFilter(n) is about to be called
BloomInit ==
    /\ bf_pc = "new"
    /\ expected_num_elements \in BloomExpected
    /\ filter_len = 0
    /\ filter = <<>>
    /\ num_hash_func = 0
    /\ bf_error = "none"
    /\ added = {}
    /\ bf_checked = <<>>
    /\ bf_result = "none"

\* __init__: bitarray(filter_len) raises ValueError for a negative length,
\* filter_len / expected_num_elements raises ZeroDivisionError for 0.
BloomNew ==
    /\ bf_pc = "new"
    /\ LET n == expected_num_elements
           len == CalcFilterLength(n)
       IN  /\ filter_len' = len
           /\ IF len < 0
              THEN /\ bf_pc' = "failed"
                   /\ bf_error' = "ValueError"
                   /\ UNCHANGED <<filter, num_hash_func>>
              ELSE /\ filter' = [j \in 1..len |-> 0]
                   /\ IF n = 0
                      THEN /\ bf_pc' = "failed"
                           /\ bf_error' = "ZeroDivisionError"
                           /\ UNCHANGED num_hash_func
                      ELSE /\ bf_pc' = "ready"
                           /\ num_hash_func' = CalcNumHashFunc(len, n)
                           /\ UNCHANGED bf_error
    /\ UNCHANGED <<expected_num_elements, added, bf_checked, bf_result>>
    /\ UNCHANGED notBloom

BloomAdd(new_item) ==
    /\ bf_pc = "ready"
    /\ new_item \in added \/ Cardinality(added) < MaxAdded
    /\ filter' = AddToFilter(filter, new_item, num_hash_func, filter_len)
    /\ added' = added \cup {new_item}
    /\ UNCHANGED <<bf_pc, expected_num_elements, filter_len, num_hash_func,
                   bf_error, bf_checked, bf_result>>
    /\ UNCHANGED notBloom

BloomCheck(item) ==
    /\ bf_pc = "ready"
    /\ bf_checked' = item
    /\ bf_result' =
         IF CheckIsNotInFilter(filter, item, num_hash_func, filter_len)
         THEN "True" ELSE "False"
    /\ UNCHANGED <<bf_pc, expected_num_elements, filter_len, filter,
                   num_hash_func, bf_error, added>>
    /\ UNCHANGED notBloom

NextBloom ==
    \/ BloomNew
    \/ \E item \in BloomItems : BloomAdd(item)
    \/ \E item \in BloomItems : BloomCheck(item)

-----------------------------------------------------------------------------
-----------------------------------------------------------------------------
(* BurrowsWheelerTransform *)

\* code points of the texts' characters: 'a', 'b', 'c'
BwtAlphabet == {97, 98, 99}
BwtTexts == StringsUpTo(BwtAlphabet, MaxBwtLen)

\* [text[i:] + text[:i] for i in range(len(text))]
shifted_texts(text) ==
    [i \in 1..Len(text) |->
        SubSeq(text, i, Len(text)) \o SubSeq(text, 1, i - 1)]

\* index (0-based) of the first item equal to text, -1 when there is none
calc_origin_index(shifted, text) ==
    IF \E i \in 1..Len(shifted) : shifted[i] = text
    THEN (CHOOSE i \in 1..Len(shifted) :
            /\ shifted[i] = text
            /\ \A j \in 1..(i - 1) : shifted[j] # text) - 1
    ELSE -1

\* the last letters of the shifted texts, joined
last_letter_text(shifted) ==
    [i \in 1..Len(shifted) |-> shifted[i][Len(shifted[i])]]

\* encode(text) = <<encoded_word, encoded_index>>
BwtEncode(text) ==
    LET sorted == SortStrings(shifted_texts(text))
    IN  <<last_letter_text(sorted), calc_origin_index(sorted, text)>>

\* position (1-based) of the first tuple of lst whose field f equals v, 0 if none
FirstWith(lst, f, v) ==
    IF \E i \in 1..Len(lst) : lst[i][f] = v
    THEN CHOOSE i \in 1..Len(lst) :
            /\ lst[i][f] = v
            /\ \A j \in 1..(i - 1) : lst[j][f] # v
    ELSE 0

\* [(letter, _get_index_and_remove_by_letter(sorted_chars, letter))
\*  for letter in encoded_text]: sorted_chars loses the tuple found
RECURSIVE EncodedLetters(_, _)
EncodedLetters(sorted_chars, enc) ==
    IF enc = <<>> THEN <<>>
    ELSE LET letter == Head(enc)
             p == FirstWith(sorted_chars, 1, letter)
         IN  IF p = 0
             THEN <<(<<letter, -1>>)>> \o EncodedLetters(sorted_chars, Tail(enc))
             ELSE <<(<<letter, sorted_chars[p][2]>>)>>
                  \o EncodedLetters(RemoveAt(sorted_chars, p), Tail(enc))

\* _get_signs_chain: tuples (prev_ind, letter, next_ind), indices 0-based
get_signs_chain(enc) ==
    LET sorted == SortStrings([i \in 1..Len(enc) |-> <<enc[i]>>])
        sorted_chars == [i \in 1..Len(enc) |-> <<sorted[i][1], i - 1>>]
        encoded_letters == EncodedLetters(sorted_chars, enc)
    IN  [i \in 1..Len(enc) |->
            <<i - 1, encoded_letters[i][1], encoded_letters[i][2]>>]

\* _get_and_remove_by_index = <<letter, next index, the chain left>>;
\* the letter is a string: one character, or '' when nothing is found
get_and_remove_by_index(chain, searched_index) ==
    LET p == FirstWith(chain, 1, searched_index)
    IN  IF p = 0 THEN <<(<<>>), -1, chain>>
        ELSE <<(<<chain[p][2]>>), chain[p][3], RemoveAt(chain, p)>>

BwtIdle ==
    /\ bwt_pc = "idle"
    /\ bwt_call = "none"
    /\ bwt_text = <<>>
    /\ encoded_text = <<>>
    /\ encoded_index = 0
    /\ signs_chain = <<>>
    /\ curr_index = 0
    /\ text_signs_reversed = <<>>
    /\ bwt_result = <<>>
    /\ bwt_error = "none"

\* a text is chosen; nothing has been called yet
BwtInit ==
    /\ bwt_pc = "start"
    /\ bwt_call = "none"
    /\ bwt_text \in BwtTexts
    /\ encoded_text = <<>>
    /\ encoded_index = 0
    /\ signs_chain = <<>>
    /\ curr_index = 0
    /\ text_signs_reversed = <<>>
    /\ bwt_result = <<>>
    /\ bwt_error = "none"

\* encoded_word, encoded_index = encode(text)
BwtCallEncode ==
    /\ bwt_pc = "start"
    /\ bwt_pc' = "encoded"
    /\ encoded_text' = BwtEncode(bwt_text)[1]
    /\ encoded_index' = BwtEncode(bwt_text)[2]
    /\ UNCHANGED <<bwt_call, bwt_text, signs_chain, curr_index,
                   text_signs_reversed, bwt_result, bwt_error>>
    /\ UNCHANGED notBwt

\* decode, lines 124-128: the chain is built, curr_index = encoded_index
BwtDecodeBegin(enc, index, call) ==
    /\ bwt_call' = call
    /\ encoded_text' = enc
    /\ encoded_index' = index
    /\ signs_chain' = get_signs_chain(enc)
    /\ curr_index' = index
    /\ text_signs_reversed' = <<>>
    /\ bwt_pc' = "walk"
    /\ UNCHANGED <<bwt_text, bwt_result, bwt_error>>

\* decode applied to the pair encode returned
BwtDecodeEncoded ==
    /\ bwt_pc = "encoded"
    /\ BwtDecodeBegin(encoded_text, encoded_index, "roundtrip")
    /\ UNCHANGED notBwt

\* decode(encoded_text, encoded_index) on arguments of the caller's choice
BwtDecodeDirect(enc, index) ==
    /\ bwt_pc = "start"
    /\ bwt_text = enc
    /\ BwtDecodeBegin(enc, index, "direct")
    /\ UNCHANGED notBwt

\* one iteration of `while signs_chain:`
BwtWalkStep ==
    /\ bwt_pc = "walk"
    /\ signs_chain # <<>>
    /\ Len(text_signs_reversed) < Len(encoded_text) + WalkSlack
    /\ LET r == get_and_remove_by_index(signs_chain, curr_index)
       IN  /\ text_signs_reversed' = Append(text_signs_reversed, r[1])
           /\ curr_index' = r[2]
           /\ signs_chain' = r[3]
    /\ UNCHANGED <<bwt_pc, bwt_call, bwt_text, encoded_text, encoded_index,
                   bwt_result, bwt_error>>
    /\ UNCHANGED notBwt

\* the loop ends: return ''.join(text_signs_reversed[::-1])
BwtDecodeReturn ==
    /\ bwt_pc = "walk"
    /\ signs_chain = <<>>
    /\ bwt_pc' = "done"
    /\ bwt_result' = Join(Reverse(text_signs_reversed))
    /\ UNCHANGED <<bwt_call, bwt_text, encoded_text, encoded_index,
                   signs_chain, curr_index, text_signs_reversed, bwt_error>>
    /\ UNCHANGED notBwt

NextBWT ==
    \/ BwtCallEncode
    \/ BwtDecodeEncoded
    \/ \E index \in (-1)..(Len(bwt_text) + 1) : BwtDecodeDirect(bwt_text, index)
    \/ BwtWalkStep
    \/ BwtDecodeReturn

-----------------------------------------------------------------------------
(* HammingCoder *)

HamIdle ==
    /\ ham_pc = "idle"
    /\ num_of_char = 0
    /\ origin_str = <<>>
    /\ encoded_chunks = <<>>
    /\ ham_flipped = {}
    /\ ham_result = <<>>
    /\ ham_error = "none"

\* code points of the texts' characters: 'a' (one UTF-8 byte) and
\* e-acute, U+00E9 (two UTF-8 bytes)
HamAlphabet == {97, 233}
HamTexts == StringsUpTo(HamAlphabet, MaxHamLen)

\* str.encode('utf-8') of one character
Utf8(cp) ==
    IF cp < 128 THEN <<cp>>
    ELSE IF cp < 2048 THEN <<192 + (cp \div 64), 128 + (cp % 64)>>
    ELSE IF cp < 65536
         THEN <<224 + (cp \div 4096), 128 + ((cp \div 64) % 64), 128 + (cp % 64)>>
    ELSE <<240 + (cp \div 262144), 128 + ((cp \div 4096) % 64),
           128 + ((cp \div 64) % 64), 128 + (cp % 64)>>

\* bitarray('{:0>8}'.format(format(encoded_char, 'b')))
ByteBits(byte) == [k \in 1..8 |-> (byte \div (2 ^ (8 - k))) % 2]

\* _chunk_to_b_array
RECURSIVE chunk_to_b_array(_)
chunk_to_b_array(chunk_str) ==
    IF chunk_str = <<>> THEN <<>>
    ELSE LET bytes == Utf8(Head(chunk_str))
         IN  Join([k \in 1..Len(bytes) |-> ByteBits(bytes[k])])
             \o chunk_to_b_array(Tail(chunk_str))

\* _from_str_to_b_arrays, for n = self.num_of_char >= 1
from_str_to_b_arrays(str, n) ==
    [j \in 1..((Len(str) + n - 1) \div n) |->
        chunk_to_b_array(PySlice(str, (j - 1) * n, j * n))]

\* _add_info_bits over _split_chunk: a '0' before each part the generator
\* yields; collected starts as the '0' of the first, empty part
RECURSIVE AddInfoLoop(_, _, _, _, _)
AddInfoLoop(chunk, i, first_ind, last_ind, collected) ==
    IF last_ind <= Len(chunk)
    THEN LET last == first_ind + (2 ^ i) - 1
         IN  AddInfoLoop(chunk, i + 1, first_ind + (2 ^ i) - 1, last,
                         collected \o <<0>> \o PySlice(chunk, first_ind, last))
    ELSE collected

add_info_bits(chunk) == AddInfoLoop(chunk, 1, 0, 0, <<0>>)

\* list(_control_bit(it, position)).count(1): position - 1 bits skipped,
\* then position bits taken, position bits skipped, and so on
ControlCount(it, position) ==
    Cardinality({j \in 1..Len(it) :
                    /\ j >= position
                    /\ ((j - position) \div position) % 2 = 0
                    /\ it[j] = 1})

\* _set_info_bits: the first loop finds the largest i with 2**i < len
RECURSIVE TopInfoIndex(_, _)
TopInfoIndex(i, len) ==
    IF 2 ^ (i + 1) < len THEN TopInfoIndex(i + 1, len) ELSE i

RECURSIVE SetInfoFrom(_, _)
SetInfoFrom(chunk_bin, i) ==
    IF i >= 0
    THEN SetInfoFrom(
            [chunk_bin EXCEPT ![2 ^ i] = ControlCount(chunk_bin, 2 ^ i) % 2],
            i - 1)
    ELSE chunk_bin

set_info_bits(chunk_bin) ==
    SetInfoFrom(chunk_bin, TopInfoIndex(-1, Len(chunk_bin)))

\* _encode_chunk
encode_chunk(chunk_bin) == set_info_bits(add_info_bits(chunk_bin))

\* encode
HamEncode(str, n) ==
    LET origin_chunks == from_str_to_b_arrays(str, n)
    IN  [j \in 1..Len(origin_chunks) |-> encode_chunk(origin_chunks[j])]

\* _extract_value_bits
RECURSIVE ExtractValueLoop(_, _, _, _)
ExtractValueLoop(encoded_chunk, start, i, value_bits) ==
    IF start < Len(encoded_chunk)
    THEN LET end == start + (2 ^ i) - 1
         IN  ExtractValueLoop(encoded_chunk, end + 1, i + 1,
                              value_bits \o PySlice(encoded_chunk, start, end))
    ELSE value_bits

extract_value_bits(encoded_chunk) == ExtractValueLoop(encoded_chunk, 2, 1, <<>>)

\* _extract_info_bits
RECURSIVE ExtractInfoLoop(_, _, _)
ExtractInfoLoop(encoded_chunk, i, info_bits) ==
    IF 2 ^ i < Len(encoded_chunk)
    THEN ExtractInfoLoop(encoded_chunk, i + 1,
            info_bits \o PySlice(encoded_chunk, (2 ^ i) - 1, 2 ^ i))
    ELSE info_bits

extract_info_bits(encoded_chunk) == ExtractInfoLoop(encoded_chunk, 0, <<>>)

\* sum(diff_indexes)
RECURSIVE SumDiff(_, _, _)
SumDiff(received_info_bits, new_info_bits, i) ==
    IF i >= Len(received_info_bits) THEN 0
    ELSE (IF received_info_bits[i + 1] # new_info_bits[i + 1] THEN 2 ^ i ELSE 0)
         + SumDiff(received_info_bits, new_info_bits, i + 1)

\* _reverse_by_index = [chunk |-> ..., err |-> ...]: Python accepts the
\* indices -len .. len - 1 and raises IndexError for any other
reverse_by_index(received, err_ind) ==
    IF err_ind >= Len(received) \/ err_ind < -Len(received)
    THEN [chunk |-> received, err |-> "IndexError"]
    ELSE LET p == IF err_ind < 0 THEN Len(received) + err_ind + 1
                  ELSE err_ind + 1
         IN  [chunk |-> [received EXCEPT ![p] = (received[p] + 1) % 2],
              err |-> "none"]

\* _restore_chunk = [chunk |-> ..., err |-> ...]
restore_chunk(received, newly_encoded) ==
    LET received_info_bits == extract_info_bits(received)
        new_info_bits == extract_info_bits(newly_encoded)
    IN  IF Len(new_info_bits) < Len(received_info_bits)
        THEN [chunk |-> received, err |-> "IndexError"]
        ELSE reverse_by_index(received,
                SumDiff(received_info_bits, new_info_bits, 0) - 1)

\* _validate_chunks over decode's two maps = [chunks |-> ..., err |-> ...];
\* the received chunks are corrected in place, up to the first exception
RECURSIVE validate_chunks(_)
validate_chunks(received_chunks) ==
    IF received_chunks = <<>> THEN [chunks |-> <<>>, err |-> "none"]
    ELSE LET received == Head(received_chunks)
             new_encoded == encode_chunk(extract_value_bits(received))
             res == IF received = new_encoded
                    THEN [chunk |-> received, err |-> "none"]
                    ELSE restore_chunk(received, new_encoded)
         IN  IF res.err # "none"
             THEN [chunks |-> received_chunks, err |-> res.err]
             ELSE LET rest == validate_chunks(Tail(received_chunks))
                  IN  [chunks |-> <<res.chunk>> \o rest.chunks, err |-> rest.err]

\* int(char_bin.to01(), base=2)
RECURSIVE BitsToInt(_)
BitsToInt(bits) ==
    IF bits = <<>> THEN 0
    ELSE 2 * BitsToInt(SubSeq(bits, 1, Len(bits) - 1)) + bits[Len(bits)]

\* the characters _from_bits_to_str takes from one chunk of value bits
RECURSIVE CharsOfChunk(_, _, _)
CharsOfChunk(chunk, i, n) ==
    IF i >= n THEN <<>>
    ELSE LET char_bin == PySlice(chunk, 8 * i, 8 * (i + 1))
         IN  (IF char_bin # <<>> THEN <<BitsToInt(char_bin)>> ELSE <<>>)
             \o CharsOfChunk(chunk, i + 1, n)

\* _from_bits_to_str
from_bits_to_str(chunks, n) ==
    Join([j \in 1..Len(chunks) |-> CharsOfChunk(chunks[j], 0, n)])

\* a coder is constructed and a text chosen
HamInit ==
    /\ ham_pc = "start"
    /\ num_of_char \in 1..MaxChunkChars
    /\ origin_str \in HamTexts
    /\ encoded_chunks = <<>>
    /\ ham_flipped = {}
    /\ ham_result = <<>>
    /\ ham_error = "none"

\* encoded_chunks = encode(origin_str)
HamCallEncode ==
    /\ ham_pc = "start"
    /\ ham_pc' = "encoded"
    /\ encoded_chunks' = HamEncode(origin_str, num_of_char)
    /\ UNCHANGED <<num_of_char, origin_str, ham_flipped, ham_result, ham_error>>
    /\ UNCHANGED notHam

\* the channel flips bit b (0-based) of chunk k (0-based)
HamFlip(k, b) ==
    /\ ham_pc = "encoded"
    /\ Cardinality(ham_flipped) < MaxFlips
    /\ <<k, b>> \notin ham_flipped
    /\ k < Len(encoded_chunks)
    /\ b < Len(encoded_chunks[k + 1])
    /\ encoded_chunks' =
         [encoded_chunks EXCEPT ![k + 1][b + 1] = (@ + 1) % 2]
    /\ ham_flipped' = ham_flipped \cup {<<k, b>>}
    /\ UNCHANGED <<ham_pc, num_of_char, origin_str, ham_result, ham_error>>
    /\ UNCHANGED notHam

\* decode(encoded_chunks)
HamCallDecode ==
    /\ ham_pc = "encoded"
    /\ LET restored == validate_chunks(encoded_chunks)
       IN  /\ encoded_chunks' = restored.chunks
           /\ ham_error' = restored.err
           /\ IF restored.err # "none"
              THEN /\ ham_pc' = "failed"
                   /\ UNCHANGED ham_result
              ELSE /\ ham_pc' = "done"
                   /\ ham_result' =
                        from_bits_to_str(
                            [j \in 1..Len(restored.chunks) |->
                                extract_value_bits(restored.chunks[j])],
                            num_of_char)
    /\ UNCHANGED <<num_of_char, origin_str, ham_flipped>>
    /\ UNCHANGED notHam

\* most chunks / bits per chunk an encoded text of the model has
HamMaxChunks == MaxHamLen
HamMaxBits == 2 * (16 * MaxChunkChars + 1)

NextHamming ==
    \/ HamCallEncode
    \/ \E k \in 0..(HamMaxChunks - 1), b \in 0..(HamMaxBits - 1) : HamFlip(k, b)
    \/ HamCallDecode

-----------------------------------------------------------------------------
(* HammingCoder._add_info_bits on a chunk of any length *)

AibIdle ==
    /\ aib_pc = "idle"
    /\ aib_chunk = <<>>
    /\ collected_chunk = <<>>

\* the chunks of data bits
AibChunks == StringsUpTo({0, 1}, MaxChunkBits)

\* a chunk is chosen; nothing has been called yet
AibInit ==
    /\ aib_pc = "start"
    /\ aib_chunk \in AibChunks
    /\ collected_chunk = <<>>

\* collected_chunk = _add_info_bits(chunk)
AibCall ==
    /\ aib_pc = "start"
    /\ aib_pc' = "collected"
    /\ collected_chunk' = add_info_bits(aib_chunk)
    /\ UNCHANGED aib_chunk
    /\ UNCHANGED notAib

\* the chunk is handed in again: _add_info_bits keeps no state
AibAgain ==
    /\ aib_pc = "collected"
    /\ aib_pc' = "start"
    /\ collected_chunk' = <<>>
    /\ \E c \in AibChunks : aib_chunk' = c
    /\ UNCHANGED notAib

NextAib ==
    \/ AibCall
    \/ AibAgain

-----------------------------------------------------------------------------
(* HuffmanCoder *)

\* Python's None in a field that holds a node id (ids start at 1) or a
\* character (a code point)
None == 0

HufIdle ==
    /\ huf_pc = "idle"
    /\ nodes = <<>>
    /\ root = None
    /\ huf_encodes = 0
    /\ huf_text = <<>>
    /\ huf_encoded = <<>>
    /\ huf_bits = <<>>
    /\ huf_result = <<>>
    /\ huf_error = "none"
    /\ huf_prev_tree = FALSE

\* code points of the texts' characters: 'a', 'b', 'c'
HufAlphabet == {97, 98, 99}
HufTexts == StringsUpTo(HufAlphabet, MaxHufLen)
HufBitStrings == StringsUpTo({0, 1}, MaxBits)

\* Node(_character, _frequency, _left, _right)
Node(character, frequency, left, right) ==
    [character |-> character, frequency |-> frequency,
     left |-> left, right |-> right]

\* Node.__lt__ on the nodes with ids a and b
NodeLt(ns, a, b) == ns[a].frequency < ns[b].frequency

\* Node.is_leaf
is_leaf(ns, node) == ns[node].right = None /\ ns[node].left = None

\* heapq._siftdown(heap, startpos, pos); positions are 0-based
RECURSIVE SiftDownLoop(_, _, _, _, _)
SiftDownLoop(ns, heap, startpos, pos, newitem) ==
    IF pos > startpos
    THEN LET parentpos == (pos - 1) \div 2
             parent == heap[parentpos + 1]
         IN  IF NodeLt(ns, newitem, parent)
             THEN SiftDownLoop(ns, [heap EXCEPT ![pos + 1] = parent],
                               startpos, parentpos, newitem)
             ELSE [heap EXCEPT ![pos + 1] = newitem]
    ELSE [heap EXCEPT ![pos + 1] = newitem]

siftdown(ns, heap, startpos, pos) ==
    SiftDownLoop(ns, heap, startpos, pos, heap[pos + 1])

\* heapq._siftup(heap, pos)
RECURSIVE SiftUpLoop(_, _, _, _, _)
SiftUpLoop(ns, heap, startpos, pos, newitem) ==
    LET endpos == Len(heap)
        leftpos == 2 * pos + 1
        rightpos == leftpos + 1
        childpos == IF rightpos < endpos
                       /\ ~NodeLt(ns, heap[leftpos + 1], heap[rightpos + 1])
                    THEN rightpos ELSE leftpos
    IN  IF leftpos < endpos
        THEN SiftUpLoop(ns, [heap EXCEPT ![pos + 1] = heap[childpos + 1]],
                        startpos, childpos, newitem)
        ELSE siftdown(ns, [heap EXCEPT ![pos + 1] = newitem], startpos, pos)

siftup(ns, heap, pos) == SiftUpLoop(ns, heap, pos, pos, heap[pos + 1])

\* heapq.heapify(x): for i in reversed(range(n // 2)): _siftup(x, i)
RECURSIVE HeapifyFrom(_, _, _)
HeapifyFrom(ns, heap, i) ==
    IF i < 0 THEN heap ELSE HeapifyFrom(ns, siftup(ns, heap, i), i - 1)

heapify(ns, heap) == HeapifyFrom(ns, heap, (Len(heap) \div 2) - 1)

\* heapq.heappop(heap) = <<the item popped, the heap left>>, heap not empty
heappop(ns, heap) ==
    LET lastelt == heap[Len(heap)]
        rest == SubSeq(heap, 1, Len(heap) - 1)
    IN  IF rest # <<>>
        THEN <<rest[1], siftup(ns, [rest EXCEPT ![1] = lastelt], 0)>>
        ELSE <<lastelt, rest>>

\* heapq.heappush(heap, item)
heappush(ns, heap, item) ==
    siftdown(ns, Append(heap, item), 0, Len(heap))

\* the loop of _get_huffman_tree_root = <<nodes, root>>
RECURSIVE MergeLoop(_, _)
MergeLoop(ns, pq) ==
    IF Len(pq) # 1
    THEN LET l == heappop(ns, pq)
             r == heappop(ns, l[2])
             left == l[1]
             right == r[1]
             total_frequency == ns[left].frequency + ns[right].frequency
             ns2 == Append(ns, Node(None, total_frequency, left, right))
         IN  MergeLoop(ns2, heappush(ns2, r[2], Len(ns2)))
    ELSE <<ns, pq[1]>>

\* text.count(i)
Count(text, i) == Cardinality({k \in 1..Len(text) : text[k] = i})

\* the orders in which set(text) can be iterated
SetOrders(text) ==
    LET chars == {text[k] : k \in 1..Len(text)}
    IN  {order \in [1..Cardinality(chars) -> chars] :
            \A i, j \in 1..Cardinality(chars) : i # j => order[i] # order[j]}

\* [self.Node(k, v) for k, v in freq.items()]
RECURSIVE LeafNodes(_, _)
LeafNodes(text, order) ==
    IF order = <<>> THEN <<>>
    ELSE <<Node(Head(order), Count(text, Head(order)), None, None)>>
         \o LeafNodes(text, Tail(order))

\* the ids 1..n of the leaf nodes, in the order of the list
RECURSIVE LeafIds(_)
LeafIds(n) == IF n = 0 THEN <<>> ELSE Append(LeafIds(n - 1), n)

\* _get_huffman_tree_root = <<nodes, root>>; order is the iteration order
\* of set(text), which Python leaves open
get_huffman_tree_root(text, order) ==
    IF Len(text) = 0 THEN <<(<<>>), None>>
    ELSE LET ns == LeafNodes(text, order)
             pq == heapify(ns, LeafIds(Len(order)))
         IN  MergeLoop(ns, pq)

\* _fill_huffman_codes: the (character, code) pairs put into huffman_codes
RECURSIVE fill_huffman_codes(_, _, _)
fill_huffman_codes(ns, node, code) ==
    IF node = None THEN {}
    ELSE (IF is_leaf(ns, node)
          THEN {<<ns[node].character, IF Len(code) > 0 THEN code ELSE <<1>> >>}
          ELSE {})
         \cup fill_huffman_codes(ns, ns[node].left, code \o <<0>>)
         \cup fill_huffman_codes(ns, ns[node].right, code \o <<1>>)

\* huffman_codes.get(character)
CodeOf(huffman_codes, character) ==
    (CHOOSE p \in huffman_codes : p[1] = character)[2]

\* encode = [nodes, root, bits]
HufEncode(text, order) ==
    LET tree == get_huffman_tree_root(text, order)
        huffman_codes == fill_huffman_codes(tree[1], tree[2], <<>>)
    IN  [nodes |-> tree[1], root |-> tree[2],
         bits |-> Join([k \in 1..Len(text) |-> CodeOf(huffman_codes, text[k])])]

\* _decoding_parser = [index, str, err]; reading encoded_b_arr past its
\* end raises IndexError
RECURSIVE decoding_parser(_, _, _, _, _)
decoding_parser(ns, node, index, encoded_b_arr, decoded_str) ==
    IF node = None
    THEN [index |-> index, str |-> decoded_str, err |-> "none"]
    ELSE IF is_leaf(ns, node)
    THEN [index |-> index, str |-> decoded_str \o <<ns[node].character>>,
          err |-> "none"]
    ELSE IF index + 1 >= Len(encoded_b_arr)
    THEN [index |-> index + 1, str |-> decoded_str, err |-> "IndexError"]
    ELSE decoding_parser(ns,
            IF encoded_b_arr[index + 2] = 0
            THEN ns[node].left ELSE ns[node].right,
            index + 1, encoded_b_arr, decoded_str)

\* the while loop of decode's else branch = [str, err]
RECURSIVE DecodeLoop(_, _, _, _, _)
DecodeLoop(ns, rt, index, encoded_b_arr, decoded_str) ==
    IF index < Len(encoded_b_arr) - 1
    THEN LET r == decoding_parser(ns, rt, index, encoded_b_arr, decoded_str)
         IN  IF r.err # "none" THEN [str |-> decoded_str, err |-> r.err]
             ELSE DecodeLoop(ns, rt, r.index, encoded_b_arr, r.str)
    ELSE [str |-> decoded_str, err |-> "none"]

\* the exceptions decode's attribute reads raise
NoneTypeHasNoIsLeaf == "AttributeError: 'NoneType' object has no attribute 'is_leaf'"
NodeHasNoFreq == "AttributeError: 'Node' object has no attribute 'freq'"

HufDecodeTakesNoTreeAsEmpty(ns, rt, encoded_b_arr) ==
    IF rt = None THEN [str |-> <<>>, err |-> "none"]
    ELSE IF is_leaf(ns, rt) THEN [str |-> <<>>, err |-> NodeHasNoFreq]
    ELSE DecodeLoop(ns, rt, -1, encoded_b_arr, <<>>)

\* decode = [str, err]: self._root.is_leaf() fails on None, and
\* self._root.freq fails on every Node (the field is named frequency)
HufDecode(ns, rt, encoded_b_arr) ==
    IF rt = None THEN [str |-> <<>>, err |-> NoneTypeHasNoIsLeaf]
    ELSE IF is_leaf(ns, rt) THEN [str |-> <<>>, err |-> NodeHasNoFreq]
    ELSE DecodeLoop(ns, rt, -1, encoded_b_arr, <<>>)

\* HuffmanCoder(): self._root = None
HufInit ==
    /\ huf_pc = "ready"
    /\ nodes = <<>>
    /\ root = None
    /\ huf_encodes = 0
    /\ huf_text = <<>>
    /\ huf_encoded = <<>>
    /\ huf_bits = <<>>
    /\ huf_result = <<>>
    /\ huf_error = "none"
    /\ huf_prev_tree = FALSE

\* encode(text) that leaves self._root alone when the text is empty
HufCallEncodeKeepsTreeOnEmpty(text, order) ==
    /\ huf_pc # "idle"
    /\ huf_encodes < MaxEncodes
    /\ LET e == HufEncode(text, order)
       IN  /\ nodes' = IF text = <<>> THEN nodes ELSE e.nodes
           /\ root' = IF text = <<>> THEN root ELSE e.root
           /\ huf_encoded' = e.bits
    /\ huf_pc' = "encoded"
    /\ huf_text' = text
    /\ huf_encodes' = huf_encodes + 1
    /\ huf_error' = "none"
    /\ huf_prev_tree' = (root # None)
    /\ huf_bits' = <<>>
    /\ huf_result' = <<>>
    /\ UNCHANGED notHuf

\* encode(text)
HufCallEncode(text, order) ==
    /\ huf_pc # "idle"
    /\ huf_encodes < MaxEncodes
    /\ LET e == HufEncode(text, order)
       IN  /\ nodes' = e.nodes
           /\ root' = e.root
           /\ huf_encoded' = e.bits
    /\ huf_pc' = "encoded"
    /\ huf_text' = text
    /\ huf_encodes' = huf_encodes + 1
    /\ huf_error' = "none"
    /\ huf_prev_tree' = (root # None)
    /\ huf_bits' = <<>>
    /\ huf_result' = <<>>
    /\ UNCHANGED notHuf

\* decode(encoded_b_arr)
HufCallDecode(encoded_b_arr) ==
    /\ huf_pc # "idle"
    /\ LET d == HufDecode(nodes, root, encoded_b_arr)
       IN  /\ huf_pc' = IF d.err = "none" THEN "decoded" ELSE "raised"
           /\ huf_result' = d.str
           /\ huf_error' = d.err
    /\ huf_bits' = encoded_b_arr
    /\ UNCHANGED <<nodes, root, huf_encodes, huf_text, huf_encoded,
                   huf_prev_tree>>
    /\ UNCHANGED notHuf

NextHuffman ==
    \/ \E text \in HufTexts : \E order \in SetOrders(text) :
          HufCallEncode(text, order)
    \/ \E bits \in HufBitStrings \cup {huf_encoded} : HufCallDecode(bits)

-----------------------------------------------------------------------------
(* LzwCoder *)

\* Python's None where a code (an int >= 0) is expected, and where a
\* string is expected
NoCode == -1
NoneStr == <<NoCode>>

LzwIdle ==
    /\ lzw_pc = "idle"
    /\ lzw_text = <<>>
    /\ lzw_codes = <<>>
    /\ lexicon = <<>>
    /\ prev_code = 0
    /\ entry = <<>>
    /\ lzw_pos = 0
    /\ decoded_text = <<>>
    /\ lzw_result = <<>>
    /\ lzw_error = "none"

\* string.printable, as code points
printable ==
    <<
      48, 49, 50, 51, 52, 53, 54, 55, 56, 57, 97, 98,
      99, 100, 101, 102, 103, 104, 105, 106, 107, 108, 109, 110,
      111, 112, 113, 114, 115, 116, 117, 118, 119, 120, 121, 122,
      65, 66, 67, 68, 69, 70, 71, 72, 73, 74, 75, 76,
      77, 78, 79, 80, 81, 82, 83, 84, 85, 86, 87, 88,
      89, 90, 33, 34, 35, 36, 37, 38, 39, 40, 41, 42,
      43, 44, 45, 46, 47, 58, 59, 60, 61, 62, 63, 64,
      91, 92, 93, 94, 95, 96, 123, 124, 125, 126, 32, 9,
      10, 13, 11, 12
    >>
\* code points of the texts' characters: 'a', 'b' (both in printable)
LzwAlphabet == {97, 98}
LzwTexts == StringsUpTo(LzwAlphabet, MaxLzwLen)

\* max(...) of a non-empty set of ints
MaxOf(S) == CHOOSE m \in S : \A x \in S : x <= m

\* _get_start_encoding_lexicon: {letter: index}
start_encoding_lexicon ==
    [letter \in {<<printable[i]>> : i \in 1..Len(printable)} |->
        (CHOOSE i \in 1..Len(printable) : printable[i] = letter[1]) - 1]

\* _get_start_decoding_lexicon: {index: letter}
start_decoding_lexicon ==
    [index \in 0..(Len(printable) - 1) |-> <<printable[index + 1]>>]

\* lexicon.get(key): None when the key is missing
EncGet(lex, key) == IF key \in DOMAIN lex THEN lex[key] ELSE NoCode
DecGet(lex, key) == IF key \in DOMAIN lex THEN lex[key] ELSE NoneStr

\* _add_to_encoding_lexicon: the lexicon after the call
add_to_encoding_lexicon(lex, new_item) ==
    (new_item :> (MaxOf({lex[k] : k \in DOMAIN lex}) + 1)) @@ lex

\* _add_to_decoding_lexicon: the lexicon after the call
add_to_decoding_lexicon(lex, new_value) ==
    ((MaxOf(DOMAIN lex) + 1) :> new_value) @@ lex

\* the for loop of encode with its else clause, which runs whenever the loop
\* ends (the loop has no break)
RECURSIVE EncodeLoop(_, _, _, _)
EncodeLoop(text, lex, suffix, emitted) ==
    IF text = <<>> THEN Append(emitted, EncGet(lex, suffix))
    ELSE LET letter == <<Head(text)>>
             temp == suffix \o letter
         IN  IF temp \in DOMAIN lex
             THEN EncodeLoop(Tail(text), lex, temp, emitted)
             ELSE EncodeLoop(Tail(text), add_to_encoding_lexicon(lex, temp),
                             letter, Append(emitted, EncGet(lex, suffix)))

\* encode
LzwEncode(text) == EncodeLoop(text, start_encoding_lexicon, <<>>, <<>>)

\* a text is chosen; nothing has been called yet
LzwInit ==
    /\ lzw_pc = "start"
    /\ lzw_text \in LzwTexts
    /\ lzw_codes = <<>>
    /\ lexicon = <<>>
    /\ prev_code = 0
    /\ entry = <<>>
    /\ lzw_pos = 0
    /\ decoded_text = <<>>
    /\ lzw_result = <<>>
    /\ lzw_error = "none"

\* lzw_codes = encode(lzw_text); encode has no raise
LzwCallEncode ==
    /\ lzw_pc = "start"
    /\ lzw_pc' = "encoded"
    /\ lzw_codes' = LzwEncode(lzw_text)
    /\ UNCHANGED <<lzw_text, lexicon, prev_code, entry, lzw_pos,
                   decoded_text, lzw_result, lzw_error>>
    /\ UNCHANGED notLzw

\* decode, lines 83-88: encoded_text[0] raises IndexError on an empty list
LzwDecodeBegin ==
    /\ lzw_pc = "encoded"
    /\ IF lzw_codes = <<>>
       THEN /\ lzw_pc' = "failed"
            /\ lzw_error' = "IndexError"
            /\ lexicon' = start_decoding_lexicon
            /\ UNCHANGED <<prev_code, entry, lzw_pos, decoded_text>>
       ELSE /\ lzw_pc' = "decoding"
            /\ lexicon' = start_decoding_lexicon
            /\ prev_code' = lzw_codes[1]
            /\ decoded_text' = <<DecGet(start_decoding_lexicon, lzw_codes[1])>>
            /\ entry' = <<>>
            /\ lzw_pos' = 1
            /\ UNCHANGED lzw_error
    /\ UNCHANGED <<lzw_text, lzw_codes, lzw_result>>
    /\ UNCHANGED notLzw

\* the entry one iteration of decode's loop computes = [entry, err]:
\* entry[0] raises IndexError on the empty string
NextEntry(lex, ent, prev, curr_code) ==
    IF curr_code \in DOMAIN lex THEN [entry |-> lex[curr_code], err |-> "none"]
    ELSE IF ent = <<>> THEN [entry |-> ent, err |-> "IndexError"]
    ELSE [entry |-> ent \o <<ent[1]>>, err |-> "none"]

\* one iteration of `for curr_code in encoded_text[1:]`; None + str raises
\* TypeError
LzwDecodeStep ==
    /\ lzw_pc = "decoding"
    /\ lzw_pos < Len(lzw_codes)
    /\ LET curr_code == lzw_codes[lzw_pos + 1]
           e == NextEntry(lexicon, entry, prev_code, curr_code)
       IN  IF e.err # "none"
           THEN /\ lzw_pc' = "failed"
                /\ lzw_error' = e.err
                /\ UNCHANGED <<lexicon, prev_code, entry, lzw_pos,
                               decoded_text>>
           ELSE /\ entry' = e.entry
                /\ decoded_text' = Append(decoded_text, e.entry)
                /\ IF DecGet(lexicon, prev_code) = NoneStr
                   THEN /\ lzw_pc' = "failed"
                        /\ lzw_error' = "TypeError"
                        /\ UNCHANGED <<lexicon, prev_code, lzw_pos>>
                   ELSE /\ lexicon' =
                             add_to_decoding_lexicon(lexicon,
                                 DecGet(lexicon, prev_code) \o <<e.entry[1]>>)
                        /\ prev_code' = curr_code
                        /\ lzw_pos' = lzw_pos + 1
                        /\ UNCHANGED <<lzw_pc, lzw_error>>
    /\ UNCHANGED <<lzw_text, lzw_codes, lzw_result>>
    /\ UNCHANGED notLzw

\* return ''.join(decoded_text): a None item raises TypeError
LzwDecodeReturn ==
    /\ lzw_pc = "decoding"
    /\ lzw_pos = Len(lzw_codes)
    /\ IF \E k \in 1..Len(decoded_text) : decoded_text[k] = NoneStr
       THEN /\ lzw_pc' = "failed"
            /\ lzw_error' = "TypeError"
            /\ UNCHANGED lzw_result
       ELSE /\ lzw_pc' = "done"
            /\ lzw_result' = Join(decoded_text)
            /\ UNCHANGED lzw_error
    /\ UNCHANGED <<lzw_text, lzw_codes, lexicon, prev_code, entry, lzw_pos,
                   decoded_text>>
    /\ UNCHANGED notLzw

NextLZW ==
    \/ LzwCallEncode
    \/ LzwDecodeBegin
    \/ LzwDecodeStep
    \/ LzwDecodeReturn

-----------------------------------------------------------------------------
(* Specifications: one per component, the other components idle *)

InitBloom == BloomInit /\ BwtIdle /\ HamIdle /\ HufIdle /\ LzwIdle /\ AibIdle
SpecBloom == InitBloom /\ [][NextBloom]_vars

InitBWT == BloomIdle /\ BwtInit /\ HamIdle /\ HufIdle /\ LzwIdle /\ AibIdle
SpecBWT == InitBWT /\ [][NextBWT]_vars

InitHamming == BloomIdle /\ BwtIdle /\ HamInit /\ HufIdle /\ LzwIdle /\ AibIdle
SpecHamming == InitHamming /\ [][NextHamming]_vars

InitHuffman == BloomIdle /\ BwtIdle /\ HamIdle /\ HufInit /\ LzwIdle /\ AibIdle
SpecHuffman == InitHuffman /\ [][NextHuffman]_vars

InitLZW == BloomIdle /\ BwtIdle /\ HamIdle /\ HufIdle /\ LzwInit /\ AibIdle
SpecLZW == InitLZW /\ [][NextLZW]_vars

InitAib == BloomIdle /\ BwtIdle /\ HamIdle /\ HufIdle /\ LzwIdle /\ AibInit
SpecAib == InitAib /\ [][NextAib]_vars

\* any one of the components at work
Init ==
    InitBloom \/ InitBWT \/ InitHamming \/ InitHuffman \/ InitLZW \/ InitAib
Next ==
    NextBloom \/ NextBWT \/ NextHamming \/ NextHuffman \/ NextLZW \/ NextAib
Spec == Init /\ [][Next]_vars

-----------------------------------------------------------------------------
\* decode's index argument lies outside [0, len(encoded_text))
BwtIndexOutOfRange ==
    ~(0 <= encoded_index /\ encoded_index < Len(encoded_text))

\* decode's loop can no longer end: the chain is not empty and holds no
\* entry for curr_index, so every further iteration finds nothing
BwtWalkLost ==
    /\ bwt_pc = "walk"
    /\ signs_chain # <<>>
    /\ FirstWith(signs_chain, 1, curr_index) = 0

(* C1: for a non-empty text, decode of encode(text) returns text: the walk  *)
(* never loses its way, and what decode returns is the text.               *)
C1_RoundTrip ==
    (bwt_call = "roundtrip" /\ bwt_text # <<>>) =>
        /\ ~BwtWalkLost
        /\ (bwt_pc = "done" => bwt_result = bwt_text)

(* C10: decode called with an index outside [0, len(encoded_text)) fails   *)
(* with InvalidInput: it returns no string and runs no loop iteration.     *)
C10_InvalidInput ==
    (bwt_call # "none" /\ BwtIndexOutOfRange) =>
        /\ bwt_pc # "done"
        /\ (text_signs_reversed # <<>> => bwt_error = "InvalidInput")


\* decode has been called and has ended, by a return or an exception
HamDecodeEnded == ham_pc \in {"done", "failed"}

(* C2: with exactly one bit of one encoded chunk flipped (any chunk, any   *)
(* position, parity or data), decode returns the text that was encoded.    *)
C2_SingleFlipCorrected ==
    (HamDecodeEnded /\ Cardinality(ham_flipped) = 1) =>
        (ham_pc = "done" /\ ham_result = origin_str)

(* C3: with no bit of the encoded chunks altered, decode returns the text  *)
(* that was encoded, for every text and every chunk size.                  *)
C3_RoundTrip ==
    (HamDecodeEnded /\ ham_flipped = {}) =>
        (ham_pc = "done" /\ ham_result = origin_str)


\* the last call on the coder was a decode
HufDecodeEnded == huf_pc \in {"decoded", "raised"}

\* the last call on the coder was a decode of what the last encode returned
HufRoundTripEnded ==
    HufDecodeEnded /\ huf_encodes >= 1 /\ huf_bits = huf_encoded

\* the last text encoded is one symbol, one or more times
HufSingleSymbol ==
    /\ huf_encodes >= 1
    /\ huf_text # <<>>
    /\ \A k \in 1..Len(huf_text) : huf_text[k] = huf_text[1]

(* C4: decode, given the bits the last encode call on the same coder       *)
(* returned, returns the text of that call (the empty text included).      *)
C4_RoundTrip ==
    HufRoundTripEnded => (huf_pc = "decoded" /\ huf_result = huf_text)

(* C5: a text of n >= 1 occurrences of one symbol is encoded as n bits 1,  *)
(* and decode of those bits on the same coder returns the text.            *)
C5_SingleSymbolRoundTrip ==
    HufSingleSymbol =>
        /\ huf_encoded = [k \in 1..Len(huf_text) |-> 1]
        /\ (HufRoundTripEnded =>
              (huf_pc = "decoded" /\ huf_result = huf_text))

LzwDecodeEnded == lzw_pc \in {"done", "failed"}

(* C6: for a non-empty text over the seeded alphabet, decode of            *)
(* encode(text) returns the text.                                          *)
C6_RoundTrip ==
    (LzwDecodeEnded /\ lzw_text # <<>>) =>
        (lzw_pc = "done" /\ lzw_result = lzw_text)

(* C9: encode of the empty text fails with EmptyInput and returns no code  *)
(* sequence.                                                               *)
C9_EmptyInput ==
    (lzw_text = <<>> /\ lzw_pc # "start") =>
        (lzw_error = "EmptyInput" /\ lzw_codes = <<>>)

HamMultiFlipInOneChunk ==
    \E f1, f2 \in ham_flipped : f1 # f2 /\ f1[1] = f2[1]

(* C12: with two or more bits of one encoded chunk flipped, decode reports  *)
(* no error: it completes and returns a string, the one bit it flips being  *)
(* a bit of the received chunk.                                             *)
C12_MultiFlipNeverFails ==
    (HamDecodeEnded /\ HamMultiFlipInOneChunk) =>
        (ham_pc = "done" /\ ham_error = "none")

(* C13: for an index inside [0, len(encoded_text)) the walk of decode ends  *)
(* after exactly len(encoded_text) steps: every step removes one chain      *)
(* entry and collects one character, and the string returned has the        *)
(* length of encoded_text.                                                  *)
C13_WalkTakesLenSteps ==
    (bwt_call # "none" /\ ~BwtIndexOutOfRange) =>
        /\ Len(signs_chain) + Len(text_signs_reversed) = Len(encoded_text)
        /\ \A k \in 1..Len(text_signs_reversed) :
              Len(text_signs_reversed[k]) = 1
        /\ (bwt_pc = "done" => Len(bwt_result) = Len(encoded_text))

(* C14: decode reads its bits against the tree of the most recent encode    *)
(* call and no other: the tree held is the tree of the last text encoded,   *)
(* what decode returns or raises is what that tree gives, and after an      *)
(* encode of the empty text no tree is held, so decode fails as it does     *)
(* before any encode.                                                       *)
C14_DecodeUsesLastTree ==
    huf_encodes >= 1 =>
        /\ \E order \in SetOrders(huf_text) :
              <<nodes, root>> = get_huffman_tree_root(huf_text, order)
        /\ HufDecodeEnded =>
              \E order \in SetOrders(huf_text) :
                 LET tree == get_huffman_tree_root(huf_text, order)
                     d == HufDecode(tree[1], tree[2], huf_bits)
                 IN  huf_result = d.str /\ huf_error = d.err
        /\ (huf_text = <<>> /\ HufDecodeEnded) =>
              /\ huf_pc = "raised"
              /\ huf_error = NoneTypeHasNoIsLeaf
              /\ huf_result = <<>>

C14_Witness ==
    /\ huf_prev_tree
    /\ huf_text = <<>>
    /\ huf_pc = "raised"
    /\ huf_bits # <<>>

\* the 1-indexed positions of a chunk of n bits that are powers of two
PowerOfTwoPositions(n) == {p \in 1..n : \E k \in 0..n : p = 2 ^ k}

\* the smallest n with n - (number of powers of two <= n) = d
HammingLength(d) ==
    CHOOSE n \in d..(2 * d + 2) :
        /\ n - Cardinality(PowerOfTwoPositions(n)) = d
        /\ \A m \in d..(n - 1) : m - Cardinality(PowerOfTwoPositions(m)) # d

\* the bits of a chunk at the positions ps, in order
RECURSIVE BitsAt(_, _, _)
BitsAt(bits, ps, p) ==
    IF p > Len(bits) THEN <<>>
    ELSE (IF p \in ps THEN <<bits[p]>> ELSE <<>>) \o BitsAt(bits, ps, p + 1)

(* C15: a chunk of d >= 1 data bits is laid out in the smallest n with     *)
(* n - (number of powers of two <= n) = d: the parity slots are the         *)
(* power-of-two positions, the data bits fill the other positions in        *)
(* order, and the last position holds a data bit, not a parity slot.        *)
C15_ChunkLayout ==
    (aib_pc = "collected" /\ Len(aib_chunk) >= 1) =>
        LET n == Len(collected_chunk)
            data == (1..n) \ PowerOfTwoPositions(n)
        IN  /\ n = HammingLength(Len(aib_chunk))
            /\ BitsAt(collected_chunk, data, 1) = aib_chunk
            /\ n \notin PowerOfTwoPositions(n)

\* decode's loop is about to read a code its lexicon does not hold yet
LzwCodeNotInLexicon ==
    /\ lzw_pc = "decoding"
    /\ lzw_pos < Len(lzw_codes)
    /\ lzw_codes[lzw_pos + 1] \notin DOMAIN lexicon

(* C16: at every position after the first, the second included, when the   *)
(* current code is not yet in the decoding lexicon the entry emitted is the *)
(* string decoded for the previous code followed by that string's first     *)
(* character.                                                               *)
C16_EntryFromPreviousString ==
    [][LzwCodeNotInLexicon =>
          LET previous == decoded_text[Len(decoded_text)]
          IN  /\ lzw_pc' = "decoding"
              /\ entry' = previous \o <<previous[1]>>
              /\ decoded_text' = Append(decoded_text, entry')]_vars

=============================================================================
